---- MODULE Spec2Model ----
(***************************************************************************)
(* The PCA9685 16-channel PWM driver of src/i2c/pca9685.py.  Every         *)
(* register access of the driver is one run of an i2c-tools command        *)
(* (i2cdetect, i2cset, i2cget) through subprocess.run; the driver never    *)
(* looks at the command's exit status.  The model keeps the chip's         *)
(* register file, each caller's position in the method it runs, and the    *)
(* list of commands the running call has issued.                           *)
(***************************************************************************)
EXTENDS Integers, Sequences, FiniteSets, TLC

\* ------------------------------------------------------------- bounds
\* API calls made on a constructed controller in one execution.
MaxCalls == 1
\* Commands that fail (non-zero exit, empty stdout) in one execution.
MaxFaults == 1
\* The operating range of frequencies drawn by the frequency specification.
MinFreq == 24
MaxFreq == 1526
\* Calls made one after the other by the session specification.
Repeats == 2

\* The commands of the program's finished calls are kept up to this many.
HistLen == 30

\* ---------------------------------------------------- registers and bits
MODE1 == 0
MODE2 == 1
SUBADR1 == 2
PRESCALE == 254
LED0_ON_L == 6
LED0_ON_H == 7
LED0_OFF_L == 8
LED0_OFF_H == 9
ALL_LED_ON_L == 250
ALL_LED_ON_H == 251
ALL_LED_OFF_L == 252
ALL_LED_OFF_H == 253
RESTART == 128
SLEEP == 16
ALLCALL == 1
OUTDRV == 4

\* The callers that may run a method of the controller object.
Owner == 1
Procs == {1, 2}

\* ------------------------------------------------------ integer helpers
Byte == 0..255

RECURSIVE BitAnd(_, _)
\* Python's a & b on non-negative integers.
BitAnd(a, b) ==
    IF a = 0 \/ b = 0 THEN 0
    ELSE 2 * BitAnd(a \div 2, b \div 2) + (IF a % 2 = 1 /\ b % 2 = 1 THEN 1 ELSE 0)

\* Python's a | b on non-negative integers.
BitOr(a, b) == a + b - BitAnd(a, b)

\* Python's a & ~m on a non-negative a and a mask m.
AndNot(a, m) == a - BitAnd(a, m)

\* Python's v & 0xFF, also on a negative v (two's complement of any width).
LowByte(v) == v % 256

\* Python's v >> 8: an arithmetic shift, so floor division, also on a negative v.
HighByte(v) == v \div 256

\* ---------------------------------------------------------- text helpers
\* A text is a sequence of one-character strings.
HexDigits == <<"0", "1", "2", "3", "4", "5", "6", "7",
               "8", "9", "a", "b", "c", "d", "e", "f">>

RECURSIVE HexText(_)
\* The lower-case hexadecimal digits of n >= 0, no padding.
HexText(n) ==
    IF n < 16 THEN <<HexDigits[n + 1]>>
    ELSE HexText(n \div 16) \o <<HexDigits[(n % 16) + 1]>>

\* Python's "0x%02x" % n: sign, then digits, zero-padded to two characters.
Fmt02x(n) ==
    LET body == IF n < 0 THEN <<"-">> \o HexText(-n) ELSE HexText(n)
        padded == IF Len(body) < 2 THEN <<"0">> \o body ELSE body
    IN  <<"0", "x">> \o padded

IsHexDigit(c) == \E i \in 1..16 : HexDigits[i] = c

DigitVal(c) == (CHOOSE i \in 1..16 : HexDigits[i] = c) - 1

RECURSIVE DigitsVal(_)
DigitsVal(t) ==
    IF t = <<>> THEN 0
    ELSE 16 * DigitsVal(SubSeq(t, 1, Len(t) - 1)) + DigitVal(t[Len(t)])

\* The number a "0x.." text denotes, or -1 when the text is not of that form
\* (empty, no digits, a sign after the prefix).
HexValue(t) ==
    IF /\ Len(t) >= 3
       /\ t[1] = "0"
       /\ t[2] = "x"
       /\ \A i \in 3..Len(t) : IsHexDigit(t[i])
    THEN DigitsVal(SubSeq(t, 3, Len(t)))
    ELSE -1

\* How i2cset and i2cget read a register or value argument: a byte, or -1 when
\* the tool rejects the argument and exits without touching the bus.
ParseArg(t) == IF HexValue(t) \in Byte THEN HexValue(t) ELSE -1

\* ------------------------------------------------------------- state
VARIABLES
    chip,      \* the chip's register file: register address -> byte
    obj,       \* the controller object: "none", "initializing", "ready", "failed"
    pc,        \* per caller: the statement it is about to run, or "idle"
    ret,       \* per caller: where set_all_pwm returns to
    op,        \* per caller: the method it runs (or ran last) and its arguments
    locals,    \* per caller: oldmode, mode1 and prescale of the running method
    log,       \* per caller: the commands and suspensions of the running call
    outcome,   \* per caller: "none", "returned" or "raised" for the last call
    calls,     \* API calls started so far
    faults,    \* commands that have failed so far
    initFault, \* whether a register command failed during construction
    prev,      \* the call before the running one: its method and arguments,
               \* whether it returned with every command done, and the register
               \* file as it left it
    main       \* the command-line program: its mode, its position and the
               \* commands of its finished calls

vars == <<chip, obj, pc, ret, op, locals, log, outcome, calls, faults, initFault,
          prev, main>>

\* One entry of a call's log.  reg and val are the argument texts handed to the
\* tool (val is the tool's stdout for i2cget); ok is the tool's exit status.
Txn(kind, reg, val, ok) == [kind |-> kind, reg |-> reg, val |-> val, ok |-> ok, ms |-> 0]

Suspend(ms) == [kind |-> "sleep", reg |-> <<>>, val |-> <<>>, ok |-> TRUE, ms |-> ms]

NoOp == [name |-> "none", channel |-> 0, on |-> 0, off |-> 0, freq_hz |-> 0]

NoLocals == [oldmode |-> 0, mode1 |-> 0, prescale |-> 0]

\* No command-line program: the controller's methods are called directly.
NoMain == [mode |-> "none", pc |-> "off", hist |-> <<>>]

\* The register file at power-on or as an earlier session left it: MODE1 is the
\* reset value 0x11 or the value a session of this driver leaves behind, 0x81.
InitMode1 == {17, 129}

PowerOnChip(m1) ==
    [r \in Byte |-> IF r = MODE1 THEN m1
                    ELSE IF r = MODE2 THEN 4
                    ELSE IF r = PRESCALE THEN 30
                    ELSE 0]

Init ==
    /\ chip \in {PowerOnChip(m1) : m1 \in InitMode1}
    /\ obj = "none"
    /\ pc = [p \in Procs |-> "idle"]
    /\ ret = [p \in Procs |-> "idle"]
    /\ op = [p \in Procs |-> NoOp]
    /\ locals = [p \in Procs |-> NoLocals]
    /\ log = [p \in Procs |-> <<>>]
    /\ outcome = [p \in Procs |-> "none"]
    /\ calls = 0
    /\ faults = 0
    /\ initFault = FALSE
    /\ prev = [op |-> NoOp, chip |-> chip, ok |-> FALSE]
    /\ main = NoMain

\* ---------------------------------------------------------- inputs
ADDRESS == 64
FreqInputs == {24, 60, 1526}
\* Channels: both ends of 0..15, the first beyond each end, and -2, for which
\* LED0_OFF_L + 4 * channel is register 0.
ChannelInputs == {-2, -1, 0, 15, 16}
\* (on, off) pairs: the servo positions of the command line, an ON tick with a
\* high byte, and one tick beyond each end of 0..4095.
TickInputs == {<<0, 150>>, <<0, 600>>, <<600, 150>>, <<4096, 0>>, <<0, -1>>}

\* ------------------------------------------------------- control flow
\* Move caller p to statement next; "idle" is the method's normal return, which
\* for __init__ hands the constructed object to the caller.
Goto(p, next) ==
    /\ pc' = [pc EXCEPT ![p] = next]
    /\ outcome' = [outcome EXCEPT ![p] = IF next = "idle" THEN "returned" ELSE @]
    /\ obj' = IF next = "idle" /\ op[p].name = "__init__" THEN "ready" ELSE obj

\* An exception leaves the running method; one that leaves __init__ leaves no
\* object behind.
Raise(p) ==
    /\ pc' = [pc EXCEPT ![p] = "idle"]
    /\ outcome' = [outcome EXCEPT ![p] = "raised"]
    /\ obj' = IF op[p].name = "__init__" THEN "failed" ELSE obj

\* The transport either works (up) or fails; the failures of one execution
\* are bounded.
Transport(up) == up \/ faults < MaxFaults

CountFault(up) == faults' = IF up THEN faults ELSE faults + 1

\* A method call begins: its arguments are bound, its locals and its log are
\* fresh, and the call before it is remembered.
Begin(p, o, first) ==
    /\ op' = [op EXCEPT ![p] = o]
    /\ pc' = [pc EXCEPT ![p] = first]
    /\ log' = [log EXCEPT ![p] = <<>>]
    /\ outcome' = [outcome EXCEPT ![p] = "none"]
    /\ locals' = [locals EXCEPT ![p] = NoLocals]
    /\ prev' = [op |-> op[p], chip |-> chip,
                ok |-> outcome[p] = "returned" /\ \A i \in 1..Len(log[p]) : log[p][i].ok]
    /\ UNCHANGED <<chip, obj, faults, initFault>>

\* ------------------------------------------------------- the transport
\* write_reg: run i2cset with the register and the value formatted by
\* "0x%02x".  The tool stores the byte when the bus works and it accepts both
\* arguments.  Its exit status is never read, so the method returns normally
\* either way.
write_reg(p, reg, regval, up) ==
    LET a == Fmt02x(reg)
        v == Fmt02x(regval)
        done == up /\ ParseArg(a) # -1 /\ ParseArg(v) # -1
    IN  /\ chip' = IF done THEN [chip EXCEPT ![ParseArg(a)] = ParseArg(v)] ELSE chip
        /\ log' = [log EXCEPT ![p] = Append(@, Txn("i2cset", a, v, done))]
        /\ initFault' = (initFault \/ (op[p].name = "__init__" /\ ~done))
        /\ CountFault(up)

\* A variant of write_raw that sends the byte as the value of register 0.
write_raw_as_register_write(p, raw, up) == write_reg(p, MODE1, raw, up)

\* write_raw: run i2cset with one data argument only.  The chip receives one
\* byte and no value for any register.
write_raw(p, raw, up) ==
    LET a == Fmt02x(raw)
        done == up /\ ParseArg(a) # -1
    IN  /\ log' = [log EXCEPT ![p] = Append(@, Txn("i2cset", a, <<>>, done))]
        /\ CountFault(up)
        /\ UNCHANGED <<chip, initFault>>

\* What i2cget prints: the byte as "0x%02x" and a newline, or nothing when it
\* fails.
i2cget_stdout(reg, up) ==
    LET a == Fmt02x(reg)
    IN  IF up /\ ParseArg(a) # -1 THEN Fmt02x(chip[ParseArg(a)]) \o <<"\n">> ELSE <<>>

\* Python's int(text, 16): surrounding whitespace is dropped, a "0x" prefix is
\* allowed; -1 stands for the ValueError of a text that is no number.
IntBase16(t) ==
    IF t # <<>> /\ t[Len(t)] = "\n" THEN HexValue(SubSeq(t, 1, Len(t) - 1))
    ELSE HexValue(t)

\* read_reg's command and its log entry; the caller of this operator decides
\* on the value or the exception.
read_reg(p, reg, up) ==
    LET out == i2cget_stdout(reg, up)
    IN  /\ log' = [log EXCEPT ![p] = Append(@, Txn("i2cget", Fmt02x(reg), out, out # <<>>))]
        /\ initFault' = (initFault \/ (op[p].name = "__init__" /\ out = <<>>))
        /\ CountFault(up)
        /\ UNCHANGED chip

\* time.sleep(seconds), logged in milliseconds.
sleep(p, ms) ==
    /\ log' = [log EXCEPT ![p] = Append(@, Suspend(ms))]
    /\ UNCHANGED <<chip, initFault, faults>>

\* ------------------------------------------------------- set_all_pwm
all_on_l(p) ==
    /\ pc[p] = "all_on_l"
    /\ \E up \in BOOLEAN :
        /\ Transport(up)
        /\ write_reg(p, ALL_LED_ON_L, LowByte(op[p].on), up)
    /\ Goto(p, "all_on_h")
    /\ UNCHANGED <<ret, op, locals, calls, prev, main>>

all_on_h(p) ==
    /\ pc[p] = "all_on_h"
    /\ \E up \in BOOLEAN :
        /\ Transport(up)
        /\ write_reg(p, ALL_LED_ON_H, HighByte(op[p].on), up)
    /\ Goto(p, "all_off_l")
    /\ UNCHANGED <<ret, op, locals, calls, prev, main>>

all_off_l(p) ==
    /\ pc[p] = "all_off_l"
    /\ \E up \in BOOLEAN :
        /\ Transport(up)
        /\ write_reg(p, ALL_LED_OFF_L, LowByte(op[p].off), up)
    /\ Goto(p, "all_off_h")
    /\ UNCHANGED <<ret, op, locals, calls, prev, main>>

\* A variant of set_all_pwm whose last write repeats the OFF_L register.
all_off_h_repeats_low(p) ==
    /\ pc[p] = "all_off_h"
    /\ \E up \in BOOLEAN :
        /\ Transport(up)
        /\ write_reg(p, ALL_LED_OFF_L, HighByte(op[p].off), up)
    /\ Goto(p, ret[p])
    /\ UNCHANGED <<ret, op, locals, calls, prev, main>>

all_off_h(p) ==
    /\ pc[p] = "all_off_h"
    /\ \E up \in BOOLEAN :
        /\ Transport(up)
        /\ write_reg(p, ALL_LED_OFF_H, HighByte(op[p].off), up)
    /\ Goto(p, ret[p])
    /\ UNCHANGED <<ret, op, locals, calls, prev, main>>

\* ------------------------------------------------------------ __init__
Construct(p) ==
    /\ obj = "none"
    /\ pc[p] = "idle"
    /\ obj' = "initializing"
    /\ op' = [op EXCEPT ![p] = [NoOp EXCEPT !.name = "__init__"]]
    /\ pc' = [pc EXCEPT ![p] = "detect"]
    /\ log' = [log EXCEPT ![p] = <<>>]
    /\ outcome' = [outcome EXCEPT ![p] = "none"]
    /\ locals' = [locals EXCEPT ![p] = NoLocals]
    /\ UNCHANGED <<chip, ret, calls, faults, initFault, prev, main>>

\* A variant of detect that gives up the construction when the probe fails.
detect_checked(p) ==
    /\ pc[p] = "detect"
    /\ \E up \in BOOLEAN :
        /\ Transport(up)
        /\ log' = [log EXCEPT ![p] =
                      Append(@, Txn("i2cdetect", Fmt02x(ADDRESS), Fmt02x(ADDRESS), up))]
        /\ CountFault(up)
        /\ IF up THEN Goto(p, "init_all") ELSE Raise(p)
    /\ UNCHANGED <<chip, ret, op, locals, calls, initFault, prev, main>>

\* MCP2221A.detect: the probe.  Nothing of its result is looked at.
detect(p) ==
    /\ pc[p] = "detect"
    /\ \E up \in BOOLEAN :
        /\ Transport(up)
        /\ log' = [log EXCEPT ![p] =
                      Append(@, Txn("i2cdetect", Fmt02x(ADDRESS), Fmt02x(ADDRESS), up))]
        /\ CountFault(up)
    /\ Goto(p, "init_all")
    /\ UNCHANGED <<chip, ret, op, locals, calls, initFault, prev, main>>

\* self.set_all_pwm(0, 0)
init_all(p) ==
    /\ pc[p] = "init_all"
    /\ op' = [op EXCEPT ![p].on = 0, ![p].off = 0]
    /\ ret' = [ret EXCEPT ![p] = "init_mode2"]
    /\ pc' = [pc EXCEPT ![p] = "all_on_l"]
    /\ UNCHANGED <<chip, obj, locals, log, outcome, calls, faults, initFault, prev, main>>

\* A variant of __init__ whose OUTDRV write goes to MODE1.
init_mode2_wrong_register(p) ==
    /\ pc[p] = "init_mode2"
    /\ \E up \in BOOLEAN :
        /\ Transport(up)
        /\ write_reg(p, MODE1, OUTDRV, up)
    /\ Goto(p, "init_mode1")
    /\ UNCHANGED <<ret, op, locals, calls, prev, main>>

init_mode2(p) ==
    /\ pc[p] = "init_mode2"
    /\ \E up \in BOOLEAN :
        /\ Transport(up)
        /\ write_reg(p, MODE2, OUTDRV, up)
    /\ Goto(p, "init_mode1")
    /\ UNCHANGED <<ret, op, locals, calls, prev, main>>

init_mode1(p) ==
    /\ pc[p] = "init_mode1"
    /\ \E up \in BOOLEAN :
        /\ Transport(up)
        /\ write_reg(p, MODE1, ALLCALL, up)
    /\ Goto(p, "init_sleep1")
    /\ UNCHANGED <<ret, op, locals, calls, prev, main>>

init_sleep1(p) ==
    /\ pc[p] = "init_sleep1"
    /\ sleep(p, 5)
    /\ Goto(p, "init_read")
    /\ UNCHANGED <<ret, op, locals, calls, prev, main>>

\* mode1 = self.read_reg(MODE1); mode1 = mode1 & ~SLEEP
init_read(p) ==
    /\ pc[p] = "init_read"
    /\ \E up \in BOOLEAN :
        /\ Transport(up)
        /\ read_reg(p, MODE1, up)
        /\ LET regval == IntBase16(i2cget_stdout(MODE1, up))
           IN  IF regval = -1
               THEN Raise(p) /\ UNCHANGED locals
               ELSE /\ Goto(p, "init_wake")
                    /\ locals' = [locals EXCEPT ![p].mode1 = AndNot(regval, SLEEP)]
    /\ UNCHANGED <<ret, op, calls, prev, main>>

init_wake(p) ==
    /\ pc[p] = "init_wake"
    /\ \E up \in BOOLEAN :
        /\ Transport(up)
        /\ write_reg(p, MODE1, locals[p].mode1, up)
    /\ Goto(p, "init_sleep2")
    /\ UNCHANGED <<ret, op, locals, calls, prev, main>>

init_sleep2(p) ==
    /\ pc[p] = "init_sleep2"
    /\ sleep(p, 5)
    /\ Goto(p, "idle")
    /\ UNCHANGED <<ret, op, locals, calls, prev, main>>

\* -------------------------------------------------------- set_pwm_freq
\* A variant of the pre-scale without the "-= 1.0" step.
computePrescale_no_minus_one(freq_hz) ==
    (2 * 25000000 + 4096 * freq_hz) \div (2 * 4096 * freq_hz)

\* A variant of the pre-scale that truncates where the code rounds to nearest.
computePrescale_truncating(freq_hz) ==
    (25000000 - 4096 * freq_hz) \div (4096 * freq_hz)

\* A variant of the pre-scale with "*=" for the second "/=".
computePrescale_times_freq(freq_hz) ==
    (2 * 25000000 * freq_hz - 4096) \div (2 * 4096)

\* The pre-scale of lines 66-72, step by step on exact fractions num/den:
\* 25000000.0, /= 4096.0, /= float(freq_hz), -= 1.0, floor(.. + 0.5).
\* 25000000/4096 is an exact double, and for an integer freq_hz the exact
\* quotient minus one half is never an integer (4096 * freq_hz * (2k + 1) has
\* more factors 2 than 50000000) and stays further from one than a double's
\* rounding error, so the floor of the exact value is the floor the floats give.
computePrescale(freq_hz) ==
    LET num0 == 25000000
        den1 == 4096
        den2 == den1 * freq_hz
        num3 == num0 - den2
        num4 == 2 * num3 + den2
        den4 == 2 * den2
    IN  num4 \div den4

\* A caller starts set_pwm_freq(freq_hz) on the constructed object.
call_set_pwm_freq(p) ==
    /\ obj = "ready"
    /\ pc[p] = "idle"
    /\ calls < MaxCalls
    /\ \E f \in FreqInputs :
        Begin(p, [NoOp EXCEPT !.name = "set_pwm_freq", !.freq_hz = f], "freq_compute")
    /\ calls' = calls + 1
    /\ UNCHANGED <<ret, main>>

freq_compute(p) ==
    /\ pc[p] = "freq_compute"
    /\ locals' = [locals EXCEPT ![p].prescale = computePrescale(op[p].freq_hz)]
    /\ pc' = [pc EXCEPT ![p] = "freq_read"]
    /\ UNCHANGED <<chip, obj, ret, op, log, outcome, calls, faults, initFault, prev, main>>

\* oldmode = self.read_reg(MODE1)
freq_read(p) ==
    /\ pc[p] = "freq_read"
    /\ \E up \in BOOLEAN :
        /\ Transport(up)
        /\ read_reg(p, MODE1, up)
        /\ LET regval == IntBase16(i2cget_stdout(MODE1, up))
           IN  IF regval = -1
               THEN Raise(p) /\ UNCHANGED locals
               ELSE /\ Goto(p, "freq_sleepmode")
                    /\ locals' = [locals EXCEPT ![p].oldmode = regval]
    /\ UNCHANGED <<ret, op, calls, prev, main>>

HasRestart(v) == BitAnd(v, RESTART) = RESTART

\* A variant of newmode that leaves the SLEEP bit as it was.
newmode_without_sleep(oldmode) == AndNot(oldmode, RESTART)

\* newmode = (oldmode & ~RESTART) | SLEEP
newmode(oldmode) == BitOr(AndNot(oldmode, RESTART), SLEEP)

\* A variant of set_pwm_freq whose first write carries oldmode, not newmode.
freq_sleepmode_writes_oldmode(p) ==
    /\ pc[p] = "freq_sleepmode"
    /\ \E up \in BOOLEAN :
        /\ Transport(up)
        /\ write_reg(p, MODE1, locals[p].oldmode, up)
    /\ Goto(p, "freq_prescale")
    /\ UNCHANGED <<ret, op, locals, calls, prev, main>>

freq_sleepmode(p) ==
    /\ pc[p] = "freq_sleepmode"
    /\ \E up \in BOOLEAN :
        /\ Transport(up)
        /\ write_reg(p, MODE1, newmode(locals[p].oldmode), up)
    /\ Goto(p, "freq_prescale")
    /\ UNCHANGED <<ret, op, locals, calls, prev, main>>

freq_prescale(p) ==
    /\ pc[p] = "freq_prescale"
    /\ \E up \in BOOLEAN :
        /\ Transport(up)
        /\ write_reg(p, PRESCALE, locals[p].prescale, up)
    /\ Goto(p, "freq_restore")
    /\ UNCHANGED <<ret, op, locals, calls, prev, main>>

freq_restore(p) ==
    /\ pc[p] = "freq_restore"
    /\ \E up \in BOOLEAN :
        /\ Transport(up)
        /\ write_reg(p, MODE1, locals[p].oldmode, up)
    /\ Goto(p, "freq_delay")
    /\ UNCHANGED <<ret, op, locals, calls, prev, main>>

\* A variant of set_pwm_freq without its time.sleep.
freq_delay_skipped(p) ==
    /\ pc[p] = "freq_delay"
    /\ Goto(p, "freq_restart")
    /\ UNCHANGED <<chip, log, initFault, faults, ret, op, locals, calls, prev, main>>

\* A variant of set_pwm_freq that sleeps one millisecond.
freq_delay_short(p) ==
    /\ pc[p] = "freq_delay"
    /\ sleep(p, 1)
    /\ Goto(p, "freq_restart")
    /\ UNCHANGED <<ret, op, locals, calls, prev, main>>

freq_delay(p) ==
    /\ pc[p] = "freq_delay"
    /\ sleep(p, 5)
    /\ Goto(p, "freq_restart")
    /\ UNCHANGED <<ret, op, locals, calls, prev, main>>

\* A variant of set_pwm_freq whose last write has "^" for "|".
freq_restart_toggles(p) ==
    /\ pc[p] = "freq_restart"
    /\ \E up \in BOOLEAN :
        /\ Transport(up)
        /\ write_reg(p, MODE1,
                     IF HasRestart(locals[p].oldmode) THEN locals[p].oldmode - RESTART
                     ELSE locals[p].oldmode + RESTART, up)
    /\ Goto(p, "idle")
    /\ UNCHANGED <<ret, op, locals, calls, prev, main>>

freq_restart(p) ==
    /\ pc[p] = "freq_restart"
    /\ \E up \in BOOLEAN :
        /\ Transport(up)
        /\ write_reg(p, MODE1, BitOr(locals[p].oldmode, RESTART), up)
    /\ Goto(p, "idle")
    /\ UNCHANGED <<ret, op, locals, calls, prev, main>>

\* ------------------------------------------------------------- set_pwm
\* A caller starts set_pwm(channel, on, off).  The method has no check of
\* its arguments: its first statement is the first write.
call_set_pwm(p) ==
    /\ obj = "ready"
    /\ pc[p] = "idle"
    /\ calls < MaxCalls
    /\ \E c \in ChannelInputs, t \in TickInputs :
        Begin(p, [NoOp EXCEPT !.name = "set_pwm", !.channel = c, !.on = t[1], !.off = t[2]],
              "pwm_on_l")
    /\ calls' = calls + 1
    /\ UNCHANGED <<ret, main>>

pwm_on_l(p) ==
    /\ pc[p] = "pwm_on_l"
    /\ \E up \in BOOLEAN :
        /\ Transport(up)
        /\ write_reg(p, LED0_ON_L + 4 * op[p].channel, LowByte(op[p].on), up)
    /\ Goto(p, "pwm_on_h")
    /\ UNCHANGED <<ret, op, locals, calls, prev, main>>

\* A variant of set_pwm that takes the ON high byte by ">> 4".
pwm_on_h_shift_four(p) ==
    /\ pc[p] = "pwm_on_h"
    /\ \E up \in BOOLEAN :
        /\ Transport(up)
        /\ write_reg(p, LED0_ON_H + 4 * op[p].channel, op[p].on \div 16, up)
    /\ Goto(p, "pwm_off_l")
    /\ UNCHANGED <<ret, op, locals, calls, prev, main>>

pwm_on_h(p) ==
    /\ pc[p] = "pwm_on_h"
    /\ \E up \in BOOLEAN :
        /\ Transport(up)
        /\ write_reg(p, LED0_ON_H + 4 * op[p].channel, HighByte(op[p].on), up)
    /\ Goto(p, "pwm_off_l")
    /\ UNCHANGED <<ret, op, locals, calls, prev, main>>

pwm_off_l(p) ==
    /\ pc[p] = "pwm_off_l"
    /\ \E up \in BOOLEAN :
        /\ Transport(up)
        /\ write_reg(p, LED0_OFF_L + 4 * op[p].channel, LowByte(op[p].off), up)
    /\ Goto(p, "pwm_off_h")
    /\ UNCHANGED <<ret, op, locals, calls, prev, main>>

pwm_off_h(p) ==
    /\ pc[p] = "pwm_off_h"
    /\ \E up \in BOOLEAN :
        /\ Transport(up)
        /\ write_reg(p, LED0_OFF_H + 4 * op[p].channel, HighByte(op[p].off), up)
    /\ Goto(p, "idle")
    /\ UNCHANGED <<ret, op, locals, calls, prev, main>>

\* --------------------------------------------------------- set_all_pwm
\* A caller starts set_all_pwm(on, off); as in set_pwm nothing checks the
\* arguments.
call_set_all_pwm(p) ==
    /\ obj = "ready"
    /\ pc[p] = "idle"
    /\ calls < MaxCalls
    /\ \E t \in TickInputs :
        Begin(p, [NoOp EXCEPT !.name = "set_all_pwm", !.on = t[1], !.off = t[2]], "all_on_l")
    /\ ret' = [ret EXCEPT ![p] = "idle"]
    /\ calls' = calls + 1
    /\ UNCHANGED main

\* ------------------------------------------------------ software_reset
call_software_reset(p) ==
    /\ obj = "ready"
    /\ pc[p] = "idle"
    /\ calls < MaxCalls
    /\ Begin(p, [NoOp EXCEPT !.name = "software_reset"], "reset_raw")
    /\ calls' = calls + 1
    /\ UNCHANGED <<ret, main>>

\* self.write_raw(0x06)
software_reset(p) ==
    /\ pc[p] = "reset_raw"
    /\ \E up \in BOOLEAN :
        /\ Transport(up)
        /\ write_raw(p, 6, up)
    /\ Goto(p, "idle")
    /\ UNCHANGED <<ret, op, locals, calls, prev, main>>

\* ------------------------------------------------------ specification
\* One owner: caller Owner constructs the controller and makes every call.
Next ==
    \/ Construct(Owner)
    \/ detect(Owner)
    \/ init_all(Owner)
    \/ init_mode2(Owner)
    \/ init_mode1(Owner)
    \/ init_sleep1(Owner)
    \/ init_read(Owner)
    \/ init_wake(Owner)
    \/ init_sleep2(Owner)
    \/ all_on_l(Owner)
    \/ all_on_h(Owner)
    \/ all_off_l(Owner)
    \/ all_off_h(Owner)
    \/ call_set_pwm_freq(Owner)
    \/ freq_compute(Owner)
    \/ freq_read(Owner)
    \/ freq_sleepmode(Owner)
    \/ freq_prescale(Owner)
    \/ freq_restore(Owner)
    \/ freq_delay(Owner)
    \/ freq_restart(Owner)
    \/ call_set_pwm(Owner)
    \/ pwm_on_l(Owner)
    \/ pwm_on_h(Owner)
    \/ pwm_off_l(Owner)
    \/ pwm_off_h(Owner)
    \/ call_set_all_pwm(Owner)
    \/ call_software_reset(Owner)
    \/ software_reset(Owner)

Spec == Init /\ [][Next]_vars

\* The frequency specification: a constructed controller (the register file a
\* failure-free construction leaves) on which set_pwm_freq is called once with
\* any frequency of the operating range.
InitFreq ==
    /\ chip = PowerOnChip(ALLCALL)
    /\ obj = "ready"
    /\ pc = [p \in Procs |-> IF p = Owner THEN "freq_compute" ELSE "idle"]
    /\ ret = [p \in Procs |-> "idle"]
    /\ \E f \in MinFreq..MaxFreq :
        op = [p \in Procs |-> IF p = Owner
                              THEN [NoOp EXCEPT !.name = "set_pwm_freq", !.freq_hz = f]
                              ELSE NoOp]
    /\ locals = [p \in Procs |-> NoLocals]
    /\ log = [p \in Procs |-> <<>>]
    /\ outcome = [p \in Procs |-> "none"]
    /\ calls = 1
    /\ faults = 0
    /\ initFault = FALSE
    /\ prev = [op |-> [NoOp EXCEPT !.name = "__init__"], chip |-> chip, ok |-> TRUE]
    /\ main = NoMain

NextFreq ==
    \/ freq_compute(Owner)
    \/ freq_read(Owner)
    \/ freq_sleepmode(Owner)
    \/ freq_prescale(Owner)
    \/ freq_restore(Owner)
    \/ freq_delay(Owner)
    \/ freq_restart(Owner)

SpecFreq == InitFreq /\ [][NextFreq]_vars

\* ------------------------------------------------- reading a call's log
\* What a call is expected to issue, entry by entry.
Rd(reg) == [kind |-> "i2cget", reg |-> reg, val |-> 0, ms |-> 0]
Wr(reg, val) == [kind |-> "i2cset", reg |-> reg, val |-> val, ms |-> 0]
Raw(val) == [kind |-> "i2cset", reg |-> val, val |-> -1, ms |-> 0]
Sl(ms) == [kind |-> "sleep", reg |-> 0, val |-> 0, ms |-> ms]
Probe == [kind |-> "i2cdetect", reg |-> 0, val |-> 0, ms |-> 0]

\* Log entry e is the expected entry x: the same command on the same register
\* with the same value, or a suspension of at least the expected length.
Match(e, x) ==
    /\ e.kind = x.kind
    /\ e.kind = "sleep" => e.ms >= x.ms
    /\ e.kind = "i2cget" => HexValue(e.reg) = x.reg
    /\ e.kind = "i2cset" => HexValue(e.reg) = x.reg /\ HexValue(e.val) = x.val

\* The log so far is the beginning of the expected sequence, in order.
Follows(lg, expected) ==
    /\ Len(lg) <= Len(expected)
    /\ \A i \in 1..Len(lg) : Match(lg[i], expected[i])

\* The value the i-th command of a log, an i2cget, gave its caller.
ReadAt(lg, i) == IF Len(lg) >= i THEN IntBase16(lg[i].val) ELSE 0

HasBit(v, bit) == BitAnd(v, bit) = bit

InTickRange(v) == v \in 0..4095

ArgsInRange(o) ==
    /\ InTickRange(o.on)
    /\ InTickRange(o.off)
    /\ o.name = "set_pwm" => o.channel \in 0..15

\* ---------------------------------------------------------------- C1
\* C1: every write that reaches the PRESCALE register happens while the
\* chip's MODE1 register has its SLEEP bit set.
C1_PrescaleWrittenOnlyAsleep ==
    [][\A p \in Procs :
          (/\ Len(log'[p]) = Len(log[p]) + 1
           /\ log'[p][Len(log'[p])].kind = "i2cset"
           /\ log'[p][Len(log'[p])].ok
           /\ ParseArg(log'[p][Len(log'[p])].reg) = PRESCALE)
          => HasBit(chip[MODE1], SLEEP)]_vars

\* ---------------------------------------------------------------- C2
SetFrequencySequence(oldMode, freq_hz) ==
    << Rd(MODE1),
       Wr(MODE1, BitOr(AndNot(oldMode, RESTART), SLEEP)),
       Wr(PRESCALE, (50000000 - 4096 * freq_hz) \div (8192 * freq_hz)),
       Wr(MODE1, oldMode),
       Sl(5),
       Wr(MODE1, BitOr(oldMode, RESTART)) >>

\* C2: a set_pwm_freq call issues, in this order and nothing else: read MODE1,
\* write MODE1 = (oldMode & ~RESTART) | SLEEP, write PRESCALE = the pre-scale,
\* write MODE1 = oldMode, a suspension of at least 5 ms, write
\* MODE1 = oldMode | RESTART; a call that returns has issued all six.
C2_SetFrequencySequence ==
    \A p \in Procs :
        op[p].name = "set_pwm_freq" =>
            /\ Follows(log[p], SetFrequencySequence(ReadAt(log[p], 1), op[p].freq_hz))
            /\ outcome[p] = "returned" => Len(log[p]) = 6

C2_Witness ==
    /\ op[Owner].name = "set_pwm_freq"
    /\ outcome[Owner] = "returned"
    /\ Len(log[Owner]) = 6
    /\ \A i \in 1..6 : log[Owner][i].ok

\* ---------------------------------------------------------------- C3
PowerOnSequence(mode1) ==
    << Probe,
       Wr(ALL_LED_ON_L, 0), Wr(ALL_LED_ON_H, 0), Wr(ALL_LED_OFF_L, 0), Wr(ALL_LED_OFF_H, 0),
       Wr(MODE2, OUTDRV),
       Wr(MODE1, ALLCALL),
       Sl(5),
       Rd(MODE1),
       Wr(MODE1, AndNot(mode1, SLEEP)),
       Sl(5) >>

\* C3: construction issues, after the probe and in this order and nothing
\* else: the four ALL_LED writes of zero, MODE2 = OUTDRV, MODE1 = ALLCALL, a
\* suspension of at least 5 ms, a read of MODE1, MODE1 = the value read with
\* SLEEP cleared, a suspension of at least 5 ms; a construction that returns
\* has issued all of them.
C3_PowerOnSequence ==
    \A p \in Procs :
        op[p].name = "__init__" =>
            /\ Follows(log[p], PowerOnSequence(ReadAt(log[p], 9)))
            /\ outcome[p] = "returned" => Len(log[p]) = 11

C3_Witness ==
    /\ op[Owner].name = "__init__"
    /\ obj = "ready"
    /\ Len(log[Owner]) = 11
    /\ \A i \in 2..11 : log[Owner][i].ok
    /\ chip[MODE1] = ALLCALL

\* ---------------------------------------------------------------- C4
\* C4: once a register command of the power-on sequence has failed,
\* construction has failed: no further command is issued and the controller
\* is never Ready.
C4_InitFailureIsFatal == initFault => obj = "failed"

\* ---------------------------------------------------------------- C5
\* C5: set_pwm with a channel outside 0..15 or a tick outside 0..4095, and
\* set_all_pwm with a tick outside 0..4095, issue no command at all and do not
\* return normally.
C5_RangeCheckedFirst ==
    \A p \in Procs :
        (op[p].name \in {"set_pwm", "set_all_pwm"} /\ ~ArgsInRange(op[p]))
        => (log[p] = <<>> /\ outcome[p] # "returned")

\* ---------------------------------------------------------------- C6
\* C6: in a set_pwm_freq, set_pwm or set_all_pwm call (arguments in range) a
\* failed command is the call's last command and the call ends with an
\* exception.
C6_TransportErrorPropagates ==
    \A p \in Procs :
        (op[p].name \in {"set_pwm_freq", "set_pwm", "set_all_pwm"} /\ ArgsInRange(op[p]))
        => \A i \in 1..Len(log[p]) :
               ~log[p][i].ok => (i = Len(log[p]) /\ outcome[p] = "raised")

\* ---------------------------------------------------------------- C7
\* The PRESCALE writes of a log.
PrescaleWrites(lg) ==
    {i \in 1..Len(lg) : lg[i].kind = "i2cset" /\ HexValue(lg[i].reg) = PRESCALE}

\* C7 as stated: set_pwm_freq(60) computes the pre-scale 25 and writes 25 to
\* PRESCALE.
C7_Prescale60Is25 ==
    \A p \in Procs :
        (op[p].name = "set_pwm_freq" /\ op[p].freq_hz = 60) =>
            \A i \in PrescaleWrites(log[p]) : HexValue(log[p][i].val) = 25

\* C7 as amended: set_pwm_freq(60) computes the pre-scale 101 and writes 101
\* to PRESCALE.
C7_Prescale60Is101 ==
    \A p \in Procs :
        (op[p].name = "set_pwm_freq" /\ op[p].freq_hz = 60) =>
            /\ pc[p] # "freq_compute" => locals[p].prescale = 101
            /\ \A i \in PrescaleWrites(log[p]) : HexValue(log[p][i].val) = 101

C7_Witness ==
    /\ op[Owner].name = "set_pwm_freq"
    /\ op[Owner].freq_hz = 60
    /\ PrescaleWrites(log[Owner]) # {}
    /\ chip[PRESCALE] = 101

\* ---------------------------------------------------------------- C8
\* C8: over the operating range the pre-scale set_pwm_freq computes never
\* grows with the frequency: every frequency of the range at or above the
\* call's has a pre-scale at most the call's, every one at or below it a
\* pre-scale at least the call's.
C8_PrescaleMonotone ==
    \A p \in Procs :
        (op[p].name = "set_pwm_freq" /\ pc[p] = "freq_read"
         /\ op[p].freq_hz \in MinFreq..MaxFreq) =>
            \A g \in MinFreq..MaxFreq :
                /\ g >= op[p].freq_hz => computePrescale(g) <= locals[p].prescale
                /\ g <= op[p].freq_hz => computePrescale(g) >= locals[p].prescale

C8_Witness ==
    /\ op[Owner].name = "set_pwm_freq"
    /\ pc[Owner] = "freq_read"
    /\ op[Owner].freq_hz = 1000
    /\ locals[Owner].prescale < computePrescale(MinFreq)
    /\ locals[Owner].prescale > computePrescale(MaxFreq)

\* ---------------------------------------------------------------- C9
SetAllSequence(on, off) ==
    << Wr(ALL_LED_ON_L, BitAnd(on, 255)),
       Wr(ALL_LED_ON_H, on \div 256),
       Wr(ALL_LED_OFF_L, BitAnd(off, 255)),
       Wr(ALL_LED_OFF_H, off \div 256) >>

\* C9: set_all_pwm(on, off) with both ticks in 0..4095 issues exactly four
\* writes, in the order ALL_LED_ON_L = on & 0xFF, ALL_LED_ON_H = on >> 8,
\* ALL_LED_OFF_L = off & 0xFF, ALL_LED_OFF_H = off >> 8; set_all_pwm(0, 150)
\* writes 0, 0, 150, 0.
C9_SetAllSequence ==
    \A p \in Procs :
        (op[p].name = "set_all_pwm" /\ ArgsInRange(op[p])) =>
            /\ Follows(log[p], SetAllSequence(op[p].on, op[p].off))
            /\ outcome[p] = "returned" => Len(log[p]) = 4
            /\ (op[p].on = 0 /\ op[p].off = 150) =>
                   Follows(log[p], <<Wr(250, 0), Wr(251, 0), Wr(252, 150), Wr(253, 0)>>)

C9_Witness ==
    /\ op[Owner].name = "set_all_pwm"
    /\ op[Owner].on = 0
    /\ op[Owner].off = 150
    /\ outcome[Owner] = "returned"
    /\ Len(log[Owner]) = 4
    /\ chip[ALL_LED_OFF_L] = 150

\* --------------------------------------------------------------- C10
\* C10: software_reset issues exactly one command: an i2cset of the single
\* byte 0x06 with no value argument, so no register write and no read.
C10_SoftResetOneRawWrite ==
    \A p \in Procs :
        op[p].name = "software_reset" =>
            /\ Follows(log[p], <<Raw(6)>>)
            /\ \A i \in 1..Len(log[p]) : log[p][i].val = <<>>
            /\ outcome[p] = "returned" => Len(log[p]) = 1

C10_Witness ==
    /\ op[Owner].name = "software_reset"
    /\ outcome[Owner] = "returned"
    /\ Len(log[Owner]) = 1
    /\ log[Owner][1].ok

\* --------------------------------------------------------------- C11
\* The channel specification: set_pwm is called once on a constructed
\* controller with a channel of 0..15 and ticks of 0..4095.  Every tick value
\* occurs as the ON tick and as the OFF tick, each with two channels, and
\* every channel occurs with 512 tick pairs.  No command fails.
InitChannel ==
    /\ chip = PowerOnChip(ALLCALL)
    /\ obj = "ready"
    /\ pc = [p \in Procs |-> IF p = Owner THEN "pwm_on_l" ELSE "idle"]
    /\ ret = [p \in Procs |-> "idle"]
    /\ \E t \in 0..4095 : \E c \in {t % 16, 15 - (t % 16)} :
        op = [p \in Procs |-> IF p = Owner
                              THEN [NoOp EXCEPT !.name = "set_pwm", !.channel = c,
                                                !.on = t, !.off = 4095 - t]
                              ELSE NoOp]
    /\ locals = [p \in Procs |-> NoLocals]
    /\ log = [p \in Procs |-> <<>>]
    /\ outcome = [p \in Procs |-> "none"]
    /\ calls = 1
    /\ faults = MaxFaults
    /\ initFault = FALSE
    /\ prev = [op |-> [NoOp EXCEPT !.name = "__init__"], chip |-> chip, ok |-> TRUE]
    /\ main = NoMain

NextChannel ==
    \/ pwm_on_l(Owner)
    \/ pwm_on_h(Owner)
    \/ pwm_off_l(Owner)
    \/ pwm_off_h(Owner)

SpecChannel == InitChannel /\ [][NextChannel]_vars

\* The byte the i-th command of a log writes, or -1.
ByteAt(lg, i) == IF Len(lg) >= i THEN ParseArg(lg[i].val) ELSE -1

\* C11: set_pwm(channel, on, off) with the channel in 0..15 and the ticks in
\* 0..4095 writes exactly the registers LED0_ON_L + 4*channel, LED0_ON_H +
\* 4*channel, LED0_OFF_L + 4*channel, LED0_OFF_H + 4*channel, in that order;
\* each written pair has its low byte in 0..255 and its high byte in 0..15,
\* and (high << 8) | low is the tick.
C11_SetChannelRoundTrip ==
    \A p \in Procs :
        (op[p].name = "set_pwm" /\ ArgsInRange(op[p])) =>
            LET lg == log[p]
                c == op[p].channel
            IN  /\ Len(lg) <= 4
                /\ \A i \in 1..Len(lg) :
                       /\ lg[i].kind = "i2cset"
                       /\ lg[i].ok
                       /\ HexValue(lg[i].reg) = 6 + (i - 1) + 4 * c
                /\ outcome[p] = "returned" => Len(lg) = 4
                /\ Len(lg) >= 1 => ByteAt(lg, 1) \in 0..255
                /\ Len(lg) >= 2 =>
                       /\ ByteAt(lg, 2) \in 0..15
                       /\ BitOr(ByteAt(lg, 2) * 256, ByteAt(lg, 1)) = op[p].on
                /\ Len(lg) >= 3 => ByteAt(lg, 3) \in 0..255
                /\ Len(lg) >= 4 =>
                       /\ ByteAt(lg, 4) \in 0..15
                       /\ BitOr(ByteAt(lg, 4) * 256, ByteAt(lg, 3)) = op[p].off
                /\ outcome[p] = "returned" =>
                       /\ chip[LED0_ON_L + 4 * c] + 256 * chip[LED0_ON_H + 4 * c] = op[p].on
                       /\ chip[LED0_OFF_L + 4 * c] + 256 * chip[LED0_OFF_H + 4 * c] = op[p].off

C11_Witness ==
    /\ op[Owner].name = "set_pwm"
    /\ op[Owner].channel = 15
    /\ op[Owner].on = 4095
    /\ outcome[Owner] = "returned"
    /\ Len(log[Owner]) = 4
    /\ chip[66] = 255
    /\ chip[67] = 15

\* --------------------------------------------------------------- C12
\* The entries of a log that are of one kind.
OfKind(lg, kind) == {i \in 1..Len(lg) : lg[i].kind = kind}

\* The suspensions of a log that last at least 5 ms.
Suspensions(lg) == {i \in OfKind(lg, "sleep") : lg[i].ms >= 5}

\* C12 as stated: a set_pwm_freq(60) call that returns has made two
\* suspensions of at least 5 ms among its one read and four writes.
C12_TwoSuspensions ==
    \A p \in Procs :
        (op[p].name = "set_pwm_freq" /\ op[p].freq_hz = 60 /\ outcome[p] = "returned") =>
            /\ Cardinality(Suspensions(log[p])) = 2
            /\ Cardinality(OfKind(log[p], "i2cget")) = 1
            /\ Cardinality(OfKind(log[p], "i2cset")) = 4

\* C12 as amended: a set_pwm_freq(60) call that returns has made exactly one
\* suspension of at least 5 ms, after its third write (MODE1 = oldmode) and
\* before its fourth (MODE1 = oldmode | RESTART), among its one read and four
\* writes.
C12_OneSuspension ==
    \A p \in Procs :
        (op[p].name = "set_pwm_freq" /\ op[p].freq_hz = 60) =>
            /\ Cardinality(OfKind(log[p], "sleep")) <= 1
            /\ outcome[p] = "returned" =>
                   /\ Suspensions(log[p]) = {5}
                   /\ OfKind(log[p], "i2cget") = {1}
                   /\ OfKind(log[p], "i2cset") = {2, 3, 4, 6}

C12_Witness ==
    /\ op[Owner].name = "set_pwm_freq"
    /\ op[Owner].freq_hz = 60
    /\ outcome[Owner] = "returned"
    /\ Suspensions(log[Owner]) = {5}
    /\ chip[MODE1] = BitOr(locals[Owner].oldmode, RESTART)

\* --------------------------------------------------------------- C13
\* The commands of a log after its first one.
AfterProbe(lg) == IF lg = <<>> THEN <<>> ELSE Tail(lg)

\* C13: the probe's result gates nothing.  A construction whose probe failed
\* issues the same power-on commands in the same order; a construction ends
\* with an exception only when a power-on command failed; and one that has
\* ended with every power-on command done is Ready, whatever the probe gave.
C13_ProbeNeverGates ==
    \A p \in Procs :
        op[p].name = "__init__" =>
            LET power == AfterProbe(log[p])
                allDone == \A i \in 1..Len(power) : power[i].ok
            IN  /\ (log[p] # <<>> /\ ~log[p][1].ok) =>
                       Follows(power, AfterProbe(PowerOnSequence(ReadAt(power, 8))))
                /\ outcome[p] = "raised" => ~allDone
                /\ (pc[p] = "idle" /\ allDone) => (obj = "ready" /\ Len(power) = 10)

C13_Witness ==
    /\ op[Owner].name = "__init__"
    /\ log[Owner] # <<>>
    /\ ~log[Owner][1].ok
    /\ Len(log[Owner]) = 11
    /\ \A i \in 2..11 : log[Owner][i].ok
    /\ obj = "ready"

\* --------------------------------------------------------------- C14
\* The session specification: one owner constructs the controller and makes
\* Repeats more calls than MaxCalls allows elsewhere; no command fails.
InitSession ==
    /\ chip \in {PowerOnChip(m1) : m1 \in InitMode1}
    /\ obj = "none"
    /\ pc = [p \in Procs |-> "idle"]
    /\ ret = [p \in Procs |-> "idle"]
    /\ op = [p \in Procs |-> NoOp]
    /\ locals = [p \in Procs |-> NoLocals]
    /\ log = [p \in Procs |-> <<>>]
    /\ outcome = [p \in Procs |-> "none"]
    /\ calls = MaxCalls - Repeats
    /\ faults = MaxFaults
    /\ initFault = FALSE
    /\ prev = [op |-> NoOp, chip |-> chip, ok |-> FALSE]
    /\ main = NoMain

SpecSession == InitSession /\ [][Next]_vars

\* Caller p has returned from a call in which every command was done.
Completed(p) ==
    /\ pc[p] = "idle"
    /\ outcome[p] = "returned"
    /\ \A i \in 1..Len(log[p]) : log[p][i].ok

\* C14: when set_pwm_freq, set_pwm or set_all_pwm has been performed twice in
\* a row with the same arguments, the register file after the second call is
\* the register file after the first, and the controller is Ready throughout.
C14_RepeatedCallIdempotent ==
    \A p \in Procs :
        op[p].name \in {"set_pwm_freq", "set_pwm", "set_all_pwm"} =>
            /\ obj = "ready"
            /\ (Completed(p) /\ prev.ok /\ prev.op = op[p]) => chip = prev.chip

C14_Witness ==
    /\ op[Owner].name = "set_pwm_freq"
    /\ Completed(Owner)
    /\ prev.ok
    /\ prev.op = op[Owner]
    /\ chip[PRESCALE] = 101
    /\ chip[MODE1] = BitOr(ALLCALL, RESTART)

\* --------------------------------------------------------------- C20
\* The registers set_pwm_freq is said to leave alone: MODE2, the sixteen
\* channels' registers and the ALL_LED registers.
LeftAlone == {MODE2} \cup (LED0_ON_L..(LED0_OFF_H + 4 * 15)) \cup (ALL_LED_ON_L..ALL_LED_OFF_H)

\* C20: with one owner and no failed command, after a construction and after
\* every call of set_pwm_freq, set_pwm or set_all_pwm that has returned, MODE1
\* has SLEEP clear and ALLCALL set and MODE2 is OUTDRV; and set_pwm_freq has
\* changed none of MODE2, the channel registers and the ALL_LED registers.
C20_AwakeWhenQuiescent ==
    \A p \in Procs :
        (/\ op[p].name \in {"__init__", "set_pwm_freq", "set_pwm", "set_all_pwm"}
         /\ pc[p] = "idle"
         /\ outcome[p] = "returned") =>
            /\ ~HasBit(chip[MODE1], SLEEP)
            /\ HasBit(chip[MODE1], ALLCALL)
            /\ chip[MODE2] = OUTDRV
            /\ op[p].name = "set_pwm_freq" => \A r \in LeftAlone : chip[r] = prev.chip[r]

\* --------------------------------------------------------------- C15
\* The two-caller specification: on a constructed controller two callers run
\* set_pwm_freq at the same time, their commands interleaved in any order.
\* No command fails, so what goes wrong is the interleaving's doing.
InitConc ==
    /\ chip = PowerOnChip(ALLCALL)
    /\ obj = "ready"
    /\ pc = [p \in Procs |-> "freq_compute"]
    /\ ret = [p \in Procs |-> "idle"]
    /\ \E f \in FreqInputs, g \in FreqInputs :
        op = [p \in Procs |-> [NoOp EXCEPT !.name = "set_pwm_freq",
                                           !.freq_hz = IF p = Owner THEN f ELSE g]]
    /\ locals = [p \in Procs |-> NoLocals]
    /\ log = [p \in Procs |-> <<>>]
    /\ outcome = [p \in Procs |-> "none"]
    /\ calls = 2
    /\ faults = MaxFaults
    /\ initFault = FALSE
    /\ prev = [op |-> [NoOp EXCEPT !.name = "__init__"], chip |-> chip, ok |-> TRUE]
    /\ main = NoMain

NextConc ==
    \/ \E p \in Procs : freq_compute(p)
    \/ \E p \in Procs : freq_read(p)
    \/ \E p \in Procs : freq_sleepmode(p)
    \/ \E p \in Procs : freq_prescale(p)
    \/ \E p \in Procs : freq_restore(p)
    \/ \E p \in Procs : freq_delay(p)
    \/ \E p \in Procs : freq_restart(p)

SpecConc == InitConc /\ [][NextConc]_vars

\* The step is caller p's PRESCALE write reaching the chip.
WritesPrescale(p) ==
    /\ Len(log'[p]) = Len(log[p]) + 1
    /\ log'[p][Len(log'[p])].kind = "i2cset"
    /\ log'[p][Len(log'[p])].ok
    /\ ParseArg(log'[p][Len(log'[p])].reg) = PRESCALE

BothReturned == \A p \in Procs : pc[p] = "idle" /\ outcome[p] = "returned"

\* C15: set_pwm_freq is not atomic, and two interleaved calls can corrupt the
\* chip (the witness: both calls have returned and MODE1 is left with SLEEP
\* set).  The corruption is the interleaving's: PRESCALE is written with SLEEP
\* clear only after the other caller has put its old MODE1 back in between,
\* and the chip is left asleep only when a caller read MODE1 while the other
\* had it asleep.
C15_InterleavingCorrupts ==
    [][/\ \A p \in Procs :
              (WritesPrescale(p) /\ ~HasBit(chip[MODE1], SLEEP))
              => \E q \in Procs \ {p} : Len(log[q]) >= 4 /\ Len(log[p]) = 2
       /\ (BothReturned' /\ HasBit(chip'[MODE1], SLEEP))
              => \E p \in Procs : HasBit(locals'[p].oldmode, SLEEP)]_vars

C15_Witness ==
    /\ BothReturned
    /\ \A p \in Procs : Len(log[p]) = 6 /\ \A i \in 1..6 : log[p][i].ok
    /\ HasBit(chip[MODE1], SLEEP)

\* --------------------------------------------------------------- C19
\* C19: for every frequency of the operating range, the value set_pwm_freq
\* writes to PRESCALE is the pre-scale it computed and lies in 3..255: the
\* command carries it whole, and the register holds it after a write that
\* reached the chip.
C19_PrescaleFitsRegister ==
    \A p \in Procs :
        (op[p].name = "set_pwm_freq" /\ op[p].freq_hz \in MinFreq..MaxFreq) =>
            \A i \in PrescaleWrites(log[p]) :
                /\ ParseArg(log[p][i].val) \in 3..255
                /\ ParseArg(log[p][i].val) = locals[p].prescale
                /\ (pc[p] = "freq_restore" /\ log[p][i].ok) =>
                        chip[PRESCALE] = locals[p].prescale

C19_Witness ==
    /\ op[Owner].name = "set_pwm_freq"
    /\ op[Owner].freq_hz = 1526
    /\ pc[Owner] = "freq_restore"
    /\ PrescaleWrites(log[Owner]) = {3}
    /\ chip[PRESCALE] = 3

\* --------------------------------------------------------------- C16
\* The running call is stopped between two of its statements (Ctrl-C, the way
\* out of the program's loops, or the end of the process): nothing more of it
\* runs.  What it has written stays written.
Interrupt(p) ==
    /\ pc[p] # "idle"
    /\ pc' = [pc EXCEPT ![p] = "idle"]
    /\ outcome' = [outcome EXCEPT ![p] = "interrupted"]
    /\ obj' = IF op[p].name = "__init__" THEN "failed" ELSE obj
    /\ UNCHANGED <<chip, ret, op, locals, log, calls, faults, initFault, prev, main>>

\* The stop specification: on a constructed controller the owner has begun
\* set_pwm_freq; the call runs or is stopped midway, and one more call of any
\* method follows, which can be stopped too.  No command fails.
InitStop ==
    /\ chip = PowerOnChip(ALLCALL)
    /\ obj = "ready"
    /\ pc = [p \in Procs |-> IF p = Owner THEN "freq_compute" ELSE "idle"]
    /\ ret = [p \in Procs |-> "idle"]
    /\ \E f \in FreqInputs :
        op = [p \in Procs |-> IF p = Owner
                              THEN [NoOp EXCEPT !.name = "set_pwm_freq", !.freq_hz = f]
                              ELSE NoOp]
    /\ locals = [p \in Procs |-> NoLocals]
    /\ log = [p \in Procs |-> <<>>]
    /\ outcome = [p \in Procs |-> "none"]
    /\ calls = MaxCalls - 1
    /\ faults = MaxFaults
    /\ initFault = FALSE
    /\ prev = [op |-> [NoOp EXCEPT !.name = "__init__"], chip |-> chip, ok |-> TRUE]
    /\ main = NoMain

NextStop ==
    \/ Interrupt(Owner)
    \/ call_set_pwm_freq(Owner)
    \/ freq_compute(Owner)
    \/ freq_read(Owner)
    \/ freq_sleepmode(Owner)
    \/ freq_prescale(Owner)
    \/ freq_restore(Owner)
    \/ freq_delay(Owner)
    \/ freq_restart(Owner)
    \/ call_set_pwm(Owner)
    \/ pwm_on_l(Owner)
    \/ pwm_on_h(Owner)
    \/ pwm_off_l(Owner)
    \/ pwm_off_h(Owner)
    \/ call_set_all_pwm(Owner)
    \/ all_on_l(Owner)
    \/ all_on_h(Owner)
    \/ all_off_l(Owner)
    \/ all_off_h(Owner)
    \/ call_software_reset(Owner)
    \/ software_reset(Owner)

SpecStop == InitStop /\ [][NextStop]_vars

\* Caller p's set_pwm_freq was stopped after its first MODE1 write reached the
\* chip and before its restore write was issued: its log is the read, the
\* first MODE1 write and at most the PRESCALE write.
StoppedInWindow(p) ==
    /\ op[p].name = "set_pwm_freq"
    /\ pc[p] = "idle"
    /\ outcome[p] = "interrupted"
    /\ Len(log[p]) \in {2, 3}
    /\ log[p][2].ok

\* The step is a write to MODE1 reaching the chip.
WritesMode1 ==
    \E p \in Procs :
        /\ Len(log'[p]) = Len(log[p]) + 1
        /\ log'[p][Len(log'[p])].kind = "i2cset"
        /\ log'[p][Len(log'[p])].ok
        /\ ParseArg(log'[p][Len(log'[p])].reg) = MODE1

\* C16: a set_pwm_freq call stopped after its first MODE1 write and before
\* its restore write leaves MODE1 with SLEEP set, and SLEEP stays set until a
\* step that writes MODE1.
C16_StoppedCallLeavesAsleep ==
    [][/\ \A p \in Procs : StoppedInWindow(p)' => HasBit(chip'[MODE1], SLEEP)
       /\ (HasBit(chip[MODE1], SLEEP) /\ ~HasBit(chip'[MODE1], SLEEP)) => WritesMode1]_vars

C16_Witness ==
    /\ StoppedInWindow(Owner)
    /\ Len(log[Owner]) = 3
    /\ ~HasBit(locals[Owner].oldmode, SLEEP)
    /\ HasBit(chip[MODE1], SLEEP)

\* ------------------------------------------------------------ __main__
servo_min == 150
servo_max == 600

Modes == {"stop", "forward_all", "backward_all", "swing_all", "swing_ch0", "swing_ch1"}

SwingModes == {"swing_all", "swing_ch0", "swing_ch1"}

\* The program is between two calls, the last one ended without an exception.
BetweenCalls == pc[Owner] = "idle" /\ outcome[Owner] # "raised"

\* The finished call's commands join the program's history, which keeps its
\* first HistLen entries.
Absorb ==
    LET all == main.hist \o log[Owner]
    IN  IF Len(all) <= HistLen THEN all ELSE SubSeq(all, 1, HistLen)

\* pwm = PCA9685(bus = args.bus)
main_construct ==
    /\ main.pc = "construct"
    /\ obj = "none"
    /\ pc[Owner] = "idle"
    /\ obj' = "initializing"
    /\ op' = [op EXCEPT ![Owner] = [NoOp EXCEPT !.name = "__init__"]]
    /\ pc' = [pc EXCEPT ![Owner] = "detect"]
    /\ log' = [log EXCEPT ![Owner] = <<>>]
    /\ outcome' = [outcome EXCEPT ![Owner] = "none"]
    /\ locals' = [locals EXCEPT ![Owner] = NoLocals]
    /\ main' = [main EXCEPT !.pc = "dispatch"]
    /\ UNCHANGED <<chip, ret, calls, faults, initFault, prev>>

\* An exception nobody catches ends the program.
main_abort ==
    /\ main.pc \notin {"off", "aborted"}
    /\ pc[Owner] = "idle"
    /\ outcome[Owner] = "raised"
    /\ main' = [main EXCEPT !.pc = "aborted"]
    /\ UNCHANGED <<chip, obj, pc, ret, op, locals, log, outcome, calls, faults, initFault, prev>>

\* if args.mode == "stop": pwm.software_reset()
main_software_reset ==
    /\ main.pc = "dispatch"
    /\ main.mode = "stop"
    /\ BetweenCalls
    /\ Begin(Owner, [NoOp EXCEPT !.name = "software_reset"], "reset_raw")
    /\ main' = [main EXCEPT !.pc = "end", !.hist = Absorb]
    /\ UNCHANGED <<ret, calls>>

\* A variant of the program that leaves out pwm.set_pwm_freq(60).
main_set_pwm_freq_left_out ==
    /\ main.pc = "dispatch"
    /\ main.mode # "stop"
    /\ BetweenCalls
    /\ main' = [main EXCEPT !.pc = IF main.mode = "backward_all" THEN "servo_max"
                                   ELSE "servo_min"]
    /\ UNCHANGED <<chip, obj, pc, ret, op, locals, log, outcome, calls, faults, initFault, prev>>

\* pwm.set_pwm_freq(60), the first statement of every other mode
main_set_pwm_freq ==
    /\ main.pc = "dispatch"
    /\ main.mode # "stop"
    /\ BetweenCalls
    /\ Begin(Owner, [NoOp EXCEPT !.name = "set_pwm_freq", !.freq_hz = 60], "freq_compute")
    /\ main' = [main EXCEPT !.pc = IF main.mode = "backward_all" THEN "servo_max"
                                   ELSE "servo_min",
                            !.hist = Absorb]
    /\ UNCHANGED <<ret, calls>>

\* The call that moves the servos to a position: pwm.set_all_pwm(0, off) in
\* the modes for all channels, pwm.set_pwm(ch, 0, off) in swing_ch0 (ch = 0)
\* and swing_ch1 (ch = 1).
Position(off) ==
    /\ BetweenCalls
    /\ IF main.mode \in {"swing_ch0", "swing_ch1"}
       THEN Begin(Owner, [NoOp EXCEPT !.name = "set_pwm",
                                      !.channel = IF main.mode = "swing_ch0" THEN 0 ELSE 1,
                                      !.on = 0, !.off = off], "pwm_on_l")
       ELSE Begin(Owner, [NoOp EXCEPT !.name = "set_all_pwm", !.on = 0, !.off = off],
                  "all_on_l")
    /\ ret' = [ret EXCEPT ![Owner] = "idle"]
    /\ UNCHANGED calls

\* A variant of the loops whose second position is servo_min again.
main_servo_max_repeats_min ==
    /\ main.pc = "servo_max"
    /\ Position(servo_min)
    /\ main' = [main EXCEPT !.pc = IF main.mode = "backward_all" THEN "end" ELSE "sleep_max",
                            !.hist = Absorb]

\* pwm.set_all_pwm(0, servo_min) or pwm.set_pwm(ch, 0, servo_min)
main_servo_min ==
    /\ main.pc = "servo_min"
    /\ Position(servo_min)
    /\ main' = [main EXCEPT !.pc = IF main.mode = "forward_all" THEN "end" ELSE "sleep_min",
                            !.hist = Absorb]

\* pwm.set_all_pwm(0, servo_max) or pwm.set_pwm(ch, 0, servo_max)
main_servo_max ==
    /\ main.pc = "servo_max"
    /\ Position(servo_max)
    /\ main' = [main EXCEPT !.pc = IF main.mode = "backward_all" THEN "end" ELSE "sleep_max",
                            !.hist = Absorb]

\* time.sleep(1) of the loops, after the position call has returned
main_sleep ==
    /\ main.pc \in {"sleep_min", "sleep_max"}
    /\ BetweenCalls
    /\ sleep(Owner, 1000)
    /\ main' = [main EXCEPT !.pc = IF main.pc = "sleep_min" THEN "servo_max" ELSE "servo_min"]
    /\ UNCHANGED <<obj, pc, ret, op, locals, outcome, calls, prev>>

\* The program: started in any mode on a chip in a power-on state.
InitMain ==
    /\ chip \in {PowerOnChip(m1) : m1 \in InitMode1}
    /\ obj = "none"
    /\ pc = [p \in Procs |-> "idle"]
    /\ ret = [p \in Procs |-> "idle"]
    /\ op = [p \in Procs |-> NoOp]
    /\ locals = [p \in Procs |-> NoLocals]
    /\ log = [p \in Procs |-> <<>>]
    /\ outcome = [p \in Procs |-> "none"]
    /\ calls = 0
    /\ faults = 0
    /\ initFault = FALSE
    /\ prev = [op |-> NoOp, chip |-> chip, ok |-> FALSE]
    /\ \E m \in Modes : main = [mode |-> m, pc |-> "construct", hist |-> <<>>]

NextMain ==
    \/ main_construct
    \/ main_abort
    \/ main_software_reset
    \/ main_set_pwm_freq
    \/ main_servo_min
    \/ main_servo_max
    \/ main_sleep
    \/ detect(Owner)
    \/ init_all(Owner)
    \/ init_mode2(Owner)
    \/ init_mode1(Owner)
    \/ init_sleep1(Owner)
    \/ init_read(Owner)
    \/ init_wake(Owner)
    \/ init_sleep2(Owner)
    \/ all_on_l(Owner)
    \/ all_on_h(Owner)
    \/ all_off_l(Owner)
    \/ all_off_h(Owner)
    \/ freq_compute(Owner)
    \/ freq_read(Owner)
    \/ freq_sleepmode(Owner)
    \/ freq_prescale(Owner)
    \/ freq_restore(Owner)
    \/ freq_delay(Owner)
    \/ freq_restart(Owner)
    \/ pwm_on_l(Owner)
    \/ pwm_on_h(Owner)
    \/ pwm_off_l(Owner)
    \/ pwm_off_h(Owner)
    \/ software_reset(Owner)

SpecMain == InitMain /\ [][NextMain]_vars

\* The swing modes with no command failing: the program's steps without the
\* stop mode's and without the end by an exception.
InitSwing ==
    /\ chip \in {PowerOnChip(m1) : m1 \in InitMode1}
    /\ obj = "none"
    /\ pc = [p \in Procs |-> "idle"]
    /\ ret = [p \in Procs |-> "idle"]
    /\ op = [p \in Procs |-> NoOp]
    /\ locals = [p \in Procs |-> NoLocals]
    /\ log = [p \in Procs |-> <<>>]
    /\ outcome = [p \in Procs |-> "none"]
    /\ calls = 0
    /\ faults = MaxFaults
    /\ initFault = FALSE
    /\ prev = [op |-> NoOp, chip |-> chip, ok |-> FALSE]
    /\ \E m \in SwingModes : main = [mode |-> m, pc |-> "construct", hist |-> <<>>]

NextSwing ==
    \/ main_construct
    \/ main_set_pwm_freq
    \/ main_servo_min
    \/ main_servo_max
    \/ main_sleep
    \/ detect(Owner)
    \/ init_all(Owner)
    \/ init_mode2(Owner)
    \/ init_mode1(Owner)
    \/ init_sleep1(Owner)
    \/ init_read(Owner)
    \/ init_wake(Owner)
    \/ init_sleep2(Owner)
    \/ all_on_l(Owner)
    \/ all_on_h(Owner)
    \/ all_off_l(Owner)
    \/ all_off_h(Owner)
    \/ freq_compute(Owner)
    \/ freq_read(Owner)
    \/ freq_sleepmode(Owner)
    \/ freq_prescale(Owner)
    \/ freq_restore(Owner)
    \/ freq_delay(Owner)
    \/ freq_restart(Owner)
    \/ pwm_on_l(Owner)
    \/ pwm_on_h(Owner)
    \/ pwm_off_l(Owner)
    \/ pwm_off_h(Owner)

\* The interpreter runs the program's next statement: every command and every
\* time.sleep returns, and nothing else can hold the single thread up.
SpecSwing == InitSwing /\ [][NextSwing]_vars /\ WF_vars(NextSwing)

\* --------------------------------------------------------------- C17
\* Everything the program has issued so far, in order; it is whole while the
\* history has not reached its length.
Transcript == main.hist \o log[Owner]

WholeTranscript == main.pc # "off" /\ Len(main.hist) < HistLen

SetChannelSequence(channel, on, off) ==
    << Wr(LED0_ON_L + 4 * channel, BitAnd(on, 255)),
       Wr(LED0_ON_H + 4 * channel, on \div 256),
       Wr(LED0_OFF_L + 4 * channel, BitAnd(off, 255)),
       Wr(LED0_OFF_H + 4 * channel, off \div 256) >>

PositionSequence(mode, off) ==
    IF mode = "swing_ch0" THEN SetChannelSequence(0, 0, off)
    ELSE IF mode = "swing_ch1" THEN SetChannelSequence(1, 0, off)
    ELSE SetAllSequence(0, off)

\* n rounds of a swing loop: position 150, one second, position 600, one second.
RECURSIVE SwingRounds(_, _)
SwingRounds(mode, n) ==
    IF n = 0 THEN <<>>
    ELSE PositionSequence(mode, 150) \o <<Sl(1000)>> \o
         PositionSequence(mode, 600) \o <<Sl(1000)>> \o SwingRounds(mode, n - 1)

\* What the program is to issue in a mode, given the two values it reads from
\* MODE1 (in the power-on sequence and in set_pwm_freq).
Expected(mode, read1, read2) ==
    PowerOnSequence(read1) \o
    (IF mode = "stop" THEN <<Raw(6)>>
     ELSE SetFrequencySequence(read2, 60) \o
          (IF mode = "forward_all" THEN SetAllSequence(0, 150)
           ELSE IF mode = "backward_all" THEN SetAllSequence(0, 600)
           ELSE SwingRounds(mode, HistLen \div 10 + 1)))

\* The program has run to its end.
Ended == main.pc = "end" /\ pc[Owner] = "idle" /\ outcome[Owner] = "returned"

\* C17: in every mode what the program issues is, in order, the power-on
\* sequence, then in mode stop the soft-reset raw write and nothing else, in
\* every other mode the whole set_pwm_freq(60) sequence and only then writes
\* that carry 150 or 600; forward_all and backward_all end after exactly one
\* set_all_pwm(0, 150) and set_all_pwm(0, 600).
C17_ProgramOrder ==
    WholeTranscript =>
        LET want == Expected(main.mode, ReadAt(Transcript, 9), ReadAt(Transcript, 12))
        IN  /\ Follows(Transcript, want)
            /\ (Ended /\ main.mode \notin SwingModes) => Len(Transcript) = Len(want)

C17_Witness ==
    /\ main.mode = "backward_all"
    /\ Ended
    /\ Len(Transcript) = 21
    /\ \A i \in 2..21 : Transcript[i].ok
    /\ chip[ALL_LED_OFF_L] + 256 * chip[ALL_LED_OFF_H] = 600

\* --------------------------------------------------------------- C18
\* A swing loop is running: the program is in a swing mode and has begun a
\* position call.
InLoop == main.mode \in SwingModes /\ op[Owner].name \in {"set_pwm", "set_all_pwm"}

\* The registers a swing mode is to write.
Target(mode) ==
    IF mode = "swing_ch0" THEN LED0_ON_L..LED0_OFF_H
    ELSE IF mode = "swing_ch1" THEN (LED0_ON_L + 4)..(LED0_OFF_H + 4)
    ELSE ALL_LED_ON_L..ALL_LED_OFF_H

\* The running position call has issued its four writes with OFF value off.
Wrote(off) == InLoop /\ op[Owner].off = off /\ Len(log[Owner]) = 4

\* The step begins a position call.
BeginsPosition ==
    /\ pc[Owner] = "idle"
    /\ pc'[Owner] # "idle"
    /\ op'[Owner].name \in {"set_pwm", "set_all_pwm"}

\* C18: in the swing modes the loop never ends by itself; its position calls
\* carry OFF 150, 600, 150, 600, ... beginning with 150, each followed by a
\* suspension of one second before the next begins; each position is written
\* again and again; swing_all writes the ALL_LED registers only, swing_ch0
\* channel 0's only and swing_ch1 channel 1's only.
C18_SwingForever ==
    /\ [](main.mode \in SwingModes => main.pc # "end")
    /\ [](InLoop =>
            /\ op[Owner].on = 0
            /\ op[Owner].off \in {150, 600}
            /\ Follows(log[Owner], PositionSequence(main.mode, op[Owner].off) \o <<Sl(1000)>>)
            /\ \A i \in 1..Len(log[Owner]) :
                 log[Owner][i].kind = "i2cset" => ParseArg(log[Owner][i].reg) \in Target(main.mode))
    /\ [][/\ InLoop => InLoop'
          /\ (main.mode \in SwingModes /\ BeginsPosition) =>
                IF InLoop
                THEN /\ op'[Owner].off # op[Owner].off
                     /\ Len(log[Owner]) = 5
                     /\ log[Owner][5].kind = "sleep"
                     /\ log[Owner][5].ms >= 1000
                ELSE op'[Owner].off = 150]_vars
    /\ \A off \in {150, 600} : InLoop ~> Wrote(off)

C18_Witness ==
    /\ main.mode = "swing_ch1"
    /\ prev.op.name = "set_pwm"
    /\ prev.op.off = 600
    /\ op[Owner].off = 150
    /\ Len(log[Owner]) = 5
    /\ chip[LED0_OFF_L + 4] + 256 * chip[LED0_OFF_H + 4] = 150

====
